---- MODULE Spec2Model ----
(***************************************************************************)
(* Event-management backend: events, attendees, registration (single,      *)
(* JSON batch, CSV upload) over a relational store.                        *)
(*                                                                         *)
(* The store is the pair (events, attendees).  Emails are abstract values  *)
(* 1..NEmails; event and attendee ids are the integer primary keys the     *)
(* store assigns (SQLite rowid: largest stored id + 1).  Times are the     *)
(* integers 0..MaxTime; now is the clock datetime.now() reads.             *)
(***************************************************************************)
EXTENDS Integers, Sequences, FiniteSets, Bags, TLC

\* ---- bounds of the model ----
NEmails == 2
MaxEventId == 1
MaxCapacity == 2
MaxBatch == 2
\* unused ids below the largest stored attendee id (left by deletions)
MaxIdGaps == 1
NReqs == 2
\* the batch-validation specification (SpecBatch)
NBatchEmails == 6
SecondCapacity == 1
\* the event-status specification (SpecStatus)
MaxTime == 2

\* ---- program constants ----
ReportLimit == 5

VARIABLES events, attendees, last, reqs, now, users, middleware

vars == <<events, attendees, last, reqs, now, users, middleware>>

Emails == 1..NEmails
EventIds == 1..MaxEventId
AttendeeIds == 1..(NEmails + MaxIdGaps)
Capacities == 1..MaxCapacity
Times == 0..MaxTime

Max(S) == CHOOSE x \in S : \A y \in S : y <= x
Min2(a, b) == IF a <= b THEN a ELSE b
Range(s) == {s[i] : i \in DOMAIN s}

\* ---- the authentication middleware as constructed ----

\* A path is the sequence of its pieces: "/users/login" is
\* <<"/", "users", "/", "login">>; str.startswith is the prefix relation.
startswith(path, prefix) ==
  /\ Len(prefix) <= Len(path)
  /\ SubSeq(path, 1, Len(prefix)) = prefix

DefaultExcludePaths ==
  << <<"/">>, <<"/", "docs">>, <<"/", "redoc">>, <<"/", "openapi.json">>,
     <<"/", "users", "/", "login">>, <<"/", "users">> >>

DefaultPublicPaths == << <<"/", "events">> >>

\* AuthMiddleware.__init__: an argument left out or empty gives the default.
AuthMiddleware(exclude_paths, public_paths) ==
  [exclude_paths |-> IF exclude_paths = <<>> THEN DefaultExcludePaths
                     ELSE exclude_paths,
   public_paths |-> IF public_paths = <<>> THEN DefaultPublicPaths
                    ELSE public_paths]

\* ---- the store ----

\* EventStatus
Statuses == {"scheduled", "ongoing", "completed", "canceled"}

\* Event row (the columns the operations decide on): max_attendees,
\* start_time, end_time, status.
Event(max, start, end, status) ==
  [max_attendees |-> max, start_time |-> start, end_time |-> end, status |-> status]

\* EventCreate with the default status and some valid times.
NewEvent(max) == Event(max, 1, 2, "scheduled")

\* Attendee row: attendee_id, first_name, last_name, email, event_id,
\* check_in_status.  A name is its rank in alphabetical order; the candidates
\* of a registration are all named alike, update_attendee renames.
Attendee(id, email, event_id) ==
  [attendee_id |-> id, first_name |-> 0, last_name |-> 0, email |-> email,
   event_id |-> event_id, check_in_status |-> FALSE]

\* Primary key given to the next inserted row.
NextId(ids) == Max(ids \cup {0}) + 1

\* select(func.count()).select_from(Attendee).filter(Attendee.event_id == e)
AttendeeCount(att, e) == Cardinality({a \in att : a.event_id = e})

\* The model follows the store while at most MaxIdGaps ids below the largest
\* one are unused: n more rows then get ids up to Cardinality + n + MaxIdGaps.
IdsFit(att, n) ==
  NextId({a.attendee_id : a \in att}) + n - 1 <= Cardinality(att) + n + MaxIdGaps

\* get_event: the stored event or not-found.
EventExists(ev, e) == e \in DOMAIN ev

\* ---- the admission rules of registration ----

\* create_attendee: the event has reached its maximum.
Full(count, max) == count >= max

\* The capacity rule with the limit off by one (what C1 rules out).
OverCapacityLax(count, n, max) == count + n > max + 1

\* bulk_create_attendees / process_csv_upload: not enough space for n more.
OverCapacity(count, n, max) == count + n > max

\* emails.count(email)
CountIn(emails, x) == Cardinality({i \in DOMAIN emails : emails[i] = x})

\* The duplicate rule that lets an email pass when given twice (what C4
\* rules out).
DuplicateEmailsThrice(emails) == {x \in Range(emails) : CountIn(emails, x) > 2}

\* duplicate_emails = [email for email in set(emails) if emails.count(email) > 1]
DuplicateEmails(emails) == {x \in Range(emails) : CountIn(emails, x) > 1}

\* select(Attendee.email).filter(event_id == e, email.in_(emails))
ExistingEmails(att, e, emails) ==
  {a.email : a \in {b \in att : b.event_id = e /\ b.email \in Range(emails)}}

\* The report without the [:5] (what C5 rules out).
Untruncated(S) == {S}

\* names[:5], names a list whose order the set iteration or the store decides:
\* any ReportLimit of them (all of them when there are fewer).
Truncated(S) ==
  {R \in SUBSET S : Cardinality(R) = Min2(Cardinality(S), ReportLimit)}

\* ---- commit of inserted rows ----

\* A store whose email column is not unique across rows (what C9 rules out).
UniqueViolationInBatch(att, emails) ==
  \E i \in DOMAIN emails : CountIn(emails, emails[i]) > 1

\* Column email is declared unique=True: an INSERT of an email some stored
\* attendee (of any event) has, or twice the same email, raises IntegrityError.
UniqueViolation(att, emails) ==
  \E i \in DOMAIN emails :
    \/ emails[i] \in {a.email : a \in att}
    \/ CountIn(emails, emails[i]) > 1

\* The rows db.add() queued, with the keys the store gives them in order.
NewRows(att, e, emails) ==
  LET first == NextId({a.attendee_id : a \in att})
  IN {Attendee(first + i - 1, emails[i], e) : i \in DOMAIN emails}

NewIds(att, emails) ==
  LET first == NextId({a.attendee_id : a \in att})
  IN [i \in DOMAIN emails |-> first + i - 1]

\* A commit row by row, which keeps the rows written before the refused one
\* (what C7 rules out).
CommitRowsEach(att, e, emails) ==
  att \cup {r \in NewRows(att, e, emails) : r.email \notin {a.email : a \in att}}

\* db.commit(): one transaction, all queued rows or (on IntegrityError) none.
CommitRows(att, e, emails) ==
  IF UniqueViolation(att, emails) THEN att ELSE att \cup NewRows(att, e, emails)

\* ---- CSV upload ----
RequiredColumns == {"first_name", "last_name", "email"}

\* An uploaded file: does pd.read_csv accept it, its header, and per data row
\* the email cell and whether AttendeeCsv accepts the row.
Row(email) == [email |-> email, valid |-> TRUE]
BadRow(email) == [email |-> email, valid |-> FALSE]

WellFormed(emails) ==
  [parses |-> TRUE, columns |-> RequiredColumns,
   rows |-> [i \in DOMAIN emails |-> Row(emails[i])]]

\* A reading of the file that stops at read_csv (what C21 rules out).
CsvMalformedUnparsed(file) == ~file.parses

\* read_csv fails, a required column is missing, or AttendeeCsv rejects a row.
CsvMalformed(file) ==
  \/ ~file.parses
  \/ RequiredColumns \ file.columns # {}
  \/ \E i \in DOMAIN file.rows : ~file.rows[i].valid

\* emails = [attendee.email for attendee in attendees_data]
CsvEmails(file) == [i \in DOMAIN file.rows |-> file.rows[i].email]

\* ---- responses ----
Response(op, outcome, reported, ids) ==
  [op |-> op, outcome |-> outcome, reported |-> reported,
   total_created |-> Len(ids), attendee_ids |-> ids]

Failure(op, outcome) == Response(op, outcome, {}, <<>>)

Registrations == {"create_attendee", "bulk_create_attendees", "process_csv_upload"}
BulkRegistrations == {"bulk_create_attendees", "process_csv_upload"}

\* ---- inputs ----
\* The batches given: none, or the emails 1..n, as they are or with the last
\* of them given twice.
Batches ==
  LET runs == {[i \in 1..n |-> i] : n \in 1..Min2(MaxBatch, NEmails)}
  IN {<<>>} \cup runs \cup {Append(b, b[Len(b)]) : b \in runs}

CsvFiles ==
  {WellFormed(b) : b \in Batches}
    \cup {[parses |-> FALSE, columns |-> {}, rows |-> <<>>],
          [parses |-> TRUE, columns |-> RequiredColumns \ {"email"}, rows |-> <<>>],
          [parses |-> TRUE, columns |-> RequiredColumns, rows |-> <<BadRow(1)>>],
          [parses |-> TRUE, columns |-> RequiredColumns, rows |-> <<Row(1), BadRow(1)>>]}

\* EventUpdate.dict(exclude_unset=True): only the fields the request sets.
EventUpdates == {[f \in {} |-> 1]} \cup {[max_attendees |-> m] : m \in Capacities}

\* A request in flight: where it stands, what it was given.
Request(pc, op, e, emails, id) ==
  [pc |-> pc, op |-> op, event_id |-> e, emails |-> emails,
   attendee_id |-> id]

Init ==
  /\ events = <<>>
  /\ attendees = {}
  /\ last = Failure("none", "none")
  /\ reqs = EmptyBag
  /\ now = 0
  /\ users = {}
  /\ middleware = AuthMiddleware(<<>>, <<>>)

\* ---- event operations (each one request, start to commit) ----

\* EventBase: max_attendees gt=0, end_time after start_time.
EventCreateValid(event_data) ==
  /\ event_data.max_attendees > 0
  /\ event_data.end_time > event_data.start_time

\* EventUpdate: max_attendees gt=0; end_time is compared with start_time
\* when the request sets both.
EventUpdateValid(update_data) ==
  /\ "max_attendees" \in DOMAIN update_data => update_data.max_attendees > 0
  /\ {"start_time", "end_time"} \subseteq DOMAIN update_data
       => update_data.end_time > update_data.start_time

\* create_event: the validated event is inserted.
create_event(event_data) ==
  /\ IF ~EventCreateValid(event_data)
     THEN /\ last' = Failure("create_event", "invalid")
          /\ UNCHANGED events
     ELSE LET id == NextId(DOMAIN events)
          IN /\ id <= MaxEventId
             /\ events' = [e \in DOMAIN events \cup {id} |->
                             IF e = id THEN event_data ELSE events[e]]
             /\ last' = Response("create_event", "ok", {}, <<>>)
  /\ UNCHANGED <<attendees, reqs, now, users, middleware>>

\* An update that writes the record anew from the request (what C24 rules
\* out): a field the request leaves out falls back to the first value.
update_eventWhole(e, update_data) ==
  /\ IF ~EventUpdateValid(update_data)
     THEN /\ last' = Failure("update_event", "invalid")
          /\ UNCHANGED events
     ELSE IF ~EventExists(events, e)
     THEN /\ last' = Failure("update_event", "not_found")
          /\ UNCHANGED events
     ELSE /\ events' = [events EXCEPT ![e] =
                         [f \in DOMAIN events[e] |->
                            IF f \in DOMAIN update_data THEN update_data[f]
                            ELSE NewEvent(MaxCapacity)[f]]]
          /\ last' = Response("update_event", "ok", {}, <<>>)
  /\ UNCHANGED <<attendees, reqs, now, users, middleware>>

\* update_event: setattr of every field the request sets (exclude_unset);
\* the stored values of the other fields are compared with nothing.
update_event(e, update_data) ==
  /\ IF ~EventUpdateValid(update_data)
     THEN /\ last' = Failure("update_event", "invalid")
          /\ UNCHANGED events
     ELSE IF ~EventExists(events, e)
     THEN /\ last' = Failure("update_event", "not_found")
          /\ UNCHANGED events
     ELSE /\ events' = [events EXCEPT ![e] =
                         [f \in DOMAIN events[e] |->
                            IF f \in DOMAIN update_data THEN update_data[f]
                            ELSE events[e][f]]]
          /\ last' = Response("update_event", "ok", {}, <<>>)
  /\ UNCHANGED <<attendees, reqs, now, users, middleware>>

\* A deletion of the event row alone (what C20 rules out).
delete_eventAlone(e) ==
  /\ IF ~EventExists(events, e)
     THEN /\ last' = Failure("delete_event", "not_found")
          /\ UNCHANGED <<events, attendees>>
     ELSE /\ events' = [x \in DOMAIN events \ {e} |-> events[x]]
          /\ UNCHANGED attendees
          /\ last' = Response("delete_event", "ok", {}, <<>>)
  /\ UNCHANGED <<reqs, now, users, middleware>>

\* delete_event: the event and (relationship cascade) its attendees.
delete_event(e) ==
  /\ IF ~EventExists(events, e)
     THEN /\ last' = Failure("delete_event", "not_found")
          /\ UNCHANGED <<events, attendees, now, users, middleware>>
     ELSE /\ events' = [x \in DOMAIN events \ {e} |-> events[x]]
          /\ attendees' = {a \in attendees : a.event_id # e}
          /\ last' = Response("delete_event", "ok", {}, <<>>)
  /\ UNCHANGED <<reqs, now, users, middleware>>

\* ---- attendee operations (each one request, start to commit) ----

\* create_attendee: get_event, count, capacity, registered email, insert.
create_attendee(e, email) ==
  /\ IF ~EventExists(events, e)
     THEN /\ last' = Failure("create_attendee", "not_found")
          /\ UNCHANGED attendees
     ELSE IF Full(AttendeeCount(attendees, e), events[e].max_attendees)
     THEN /\ last' = Failure("create_attendee", "capacity")
          /\ UNCHANGED attendees
     ELSE IF ExistingEmails(attendees, e, <<email>>) # {}
     THEN /\ last' = Response("create_attendee", "duplicate_registered", {email}, <<>>)
          /\ UNCHANGED attendees
     ELSE IF UniqueViolation(attendees, <<email>>)
     THEN /\ last' = Failure("create_attendee", "integrity_error")
          /\ UNCHANGED attendees
     ELSE /\ IdsFit(attendees, 1)
          /\ attendees' = CommitRows(attendees, e, <<email>>)
          /\ last' = Response("create_attendee", "ok", {}, NewIds(attendees, <<email>>))
  /\ UNCHANGED <<events, reqs, now, users, middleware>>

\* The rules with the duplicates in the batch looked for before the capacity
\* (what C6 rules out).
RegisterDuplicatesFirst(op, e, emails) ==
  IF DuplicateEmails(emails) # {}
  THEN /\ \E rep \in Truncated(DuplicateEmails(emails)) :
            last' = Response(op, "duplicate_in_batch", rep, <<>>)
       /\ UNCHANGED attendees
  ELSE IF OverCapacity(AttendeeCount(attendees, e), Len(emails), events[e].max_attendees)
  THEN /\ last' = Failure(op, "capacity")
       /\ UNCHANGED attendees
  ELSE IF ExistingEmails(attendees, e, emails) # {}
  THEN /\ \E rep \in Truncated(ExistingEmails(attendees, e, emails)) :
            last' = Response(op, "duplicate_registered", rep, <<>>)
       /\ UNCHANGED attendees
  ELSE IF UniqueViolation(attendees, emails)
  THEN /\ last' = Failure(op, "integrity_error")
       /\ UNCHANGED attendees
  ELSE /\ IdsFit(attendees, Len(emails))
       /\ attendees' = CommitRows(attendees, e, emails)
       /\ last' = Response(op, "ok", {}, NewIds(attendees, emails))

\* The part bulk_create_attendees and process_csv_upload have in common, which
\* each of them writes out: capacity, duplicates in the batch, emails already
\* registered for the event, insert of every candidate, commit.
Register(op, e, emails) ==
  IF OverCapacity(AttendeeCount(attendees, e), Len(emails), events[e].max_attendees)
  THEN /\ last' = Failure(op, "capacity")
       /\ UNCHANGED attendees
  ELSE IF DuplicateEmails(emails) # {}
  THEN /\ \E rep \in Truncated(DuplicateEmails(emails)) :
            last' = Response(op, "duplicate_in_batch", rep, <<>>)
       /\ UNCHANGED attendees
  ELSE IF ExistingEmails(attendees, e, emails) # {}
  THEN /\ \E rep \in Truncated(ExistingEmails(attendees, e, emails)) :
            last' = Response(op, "duplicate_registered", rep, <<>>)
       /\ UNCHANGED attendees
  ELSE IF UniqueViolation(attendees, emails)
  THEN /\ last' = Failure(op, "integrity_error")
       /\ UNCHANGED attendees
  ELSE /\ IdsFit(attendees, Len(emails))
       /\ attendees' = CommitRows(attendees, e, emails)
       /\ last' = Response(op, "ok", {}, NewIds(attendees, emails))

\* bulk_create_attendees: the JSON batch.
bulk_create_attendees(e, emails) ==
  /\ IF ~EventExists(events, e)
     THEN /\ last' = Failure("bulk_create_attendees", "not_found")
          /\ UNCHANGED attendees
     ELSE Register("bulk_create_attendees", e, emails)
  /\ UNCHANGED <<events, reqs, now, users, middleware>>

\* An upload that looks for duplicates before it counts (what C22 rules out).
process_csv_uploadDuplicatesFirst(e, file) ==
  /\ IF ~EventExists(events, e)
     THEN /\ last' = Failure("process_csv_upload", "not_found")
          /\ UNCHANGED attendees
     ELSE IF CsvMalformed(file)
     THEN /\ last' = Failure("process_csv_upload", "malformed")
          /\ UNCHANGED attendees
     ELSE RegisterDuplicatesFirst("process_csv_upload", e, CsvEmails(file))
  /\ UNCHANGED <<events, reqs, now, users, middleware>>

\* process_csv_upload: get_event and count, then the file is read and
\* converted, then the same rules.
process_csv_upload(e, file) ==
  /\ IF ~EventExists(events, e)
     THEN /\ last' = Failure("process_csv_upload", "not_found")
          /\ UNCHANGED attendees
     ELSE IF CsvMalformed(file)
     THEN /\ last' = Failure("process_csv_upload", "malformed")
          /\ UNCHANGED attendees
     ELSE Register("process_csv_upload", e, CsvEmails(file))
  /\ UNCHANGED <<events, reqs, now, users, middleware>>

\* A deletion that answers an id not stored as done (what C23 rules out);
\* below it delete_attendee: get_attendee, delete, commit.
delete_attendeeQuiet(id) ==
  /\ attendees' = {a \in attendees : a.attendee_id # id}
  /\ last' = Response("delete_attendee", "ok", {}, <<>>)
  /\ UNCHANGED <<events, reqs, now, users, middleware>>

delete_attendee(id) ==
  /\ IF id \notin {a.attendee_id : a \in attendees}
     THEN /\ last' = Failure("delete_attendee", "not_found")
          /\ UNCHANGED attendees
     ELSE /\ attendees' = {a \in attendees : a.attendee_id # id}
          /\ last' = Response("delete_attendee", "ok", {}, <<>>)
  /\ UNCHANGED <<events, reqs, now, users, middleware>>

Next ==
  \/ \E m \in Capacities : create_event(NewEvent(m))
  \/ \E e \in EventIds, u \in EventUpdates : update_event(e, u)
  \/ \E e \in EventIds : delete_event(e)
  \/ \E e \in EventIds, email \in Emails : create_attendee(e, email)
  \/ \E e \in EventIds, b \in Batches : bulk_create_attendees(e, b)
  \/ \E e \in EventIds, f \in CsvFiles : process_csv_upload(e, f)
  \/ \E id \in AttendeeIds : delete_attendee(id)

Spec == Init /\ [][Next]_vars

\* ---- batch validation on two events (SpecBatch) ----
\* Event 1 has room for every batch, event 2 for SecondCapacity attendees.
\* The batches are those of Spec and, over NBatchEmails emails, the runs
\* 1..n, as they are or with the last email given twice.
RunBatches == {[i \in 1..n |-> i] : n \in 1..NBatchEmails}

BatchInputs ==
  Batches \cup RunBatches \cup {Append(b, b[Len(b)]) : b \in RunBatches}

InitBatch ==
  /\ events = [e \in {1, 2} |->
                 NewEvent(IF e = 1 THEN 2 * NBatchEmails ELSE SecondCapacity)]
  /\ attendees = {}
  /\ last = Failure("none", "none")
  /\ reqs = EmptyBag
  /\ now = 0
  /\ users = {}
  /\ middleware = AuthMiddleware(<<>>, <<>>)

NextBatch ==
  \/ \E e \in DOMAIN events, email \in Emails : create_attendee(e, email)
  \/ \E e \in DOMAIN events, b \in BatchInputs : bulk_create_attendees(e, b)
  \/ \E e \in DOMAIN events, b \in BatchInputs : process_csv_upload(e, WellFormed(b))

SpecBatch == InitBatch /\ [][NextBatch]_vars

\* ---- concurrent requests (SpecConc) ----
\* Every request has its own session; a request runs from one await of the
\* store to the next in one step, and nothing orders the steps of different
\* requests.  Steps: the reads up to the count (and the checks made on them),
\* the query for registered emails, the commit.  reqs is the bag of the
\* requests in flight, last the response of the request that returned last.
InFlight == BagToSet(reqs)
CanBegin == BagCardinality(reqs) < NReqs

\* A request returns before its second await.
Answer(response) ==
  /\ last' = response
  /\ UNCHANGED <<reqs, now, users, middleware>>

\* A new request reaches its second await.
Enter(request) ==
  /\ reqs' = reqs (+) SetToBag({request})
  /\ UNCHANGED last

\* Request q goes on to its next await.
Proceed(q, request) ==
  /\ reqs' = (reqs (-) SetToBag({q})) (+) SetToBag({request})
  /\ UNCHANGED last

\* Request q returns.
Return(q, response) ==
  /\ reqs' = reqs (-) SetToBag({q})
  /\ last' = response

\* create_attendee up to the capacity check.
BeginCreate(e, email) ==
  /\ CanBegin
  /\ IF ~EventExists(events, e)
     THEN Answer(Failure("create_attendee", "not_found"))
     ELSE IF Full(AttendeeCount(attendees, e), events[e].max_attendees)
     THEN Answer(Failure("create_attendee", "capacity"))
     ELSE Enter(Request("query", "create_attendee", e, <<email>>, 0))
  /\ UNCHANGED <<events, attendees, now, users, middleware>>

\* bulk_create_attendees up to the check for duplicates in the batch.
BeginBulk(e, emails) ==
  /\ CanBegin
  /\ IF ~EventExists(events, e)
     THEN Answer(Failure("bulk_create_attendees", "not_found"))
     ELSE IF OverCapacity(AttendeeCount(attendees, e), Len(emails),
                          events[e].max_attendees)
     THEN Answer(Failure("bulk_create_attendees", "capacity"))
     ELSE IF DuplicateEmails(emails) # {}
     THEN \E rep \in Truncated(DuplicateEmails(emails)) :
            Answer(Response("bulk_create_attendees", "duplicate_in_batch", rep, <<>>))
     ELSE Enter(Request("query", "bulk_create_attendees", e, emails, 0))
  /\ UNCHANGED <<events, attendees, now, users, middleware>>

\* process_csv_upload up to the check for duplicates in the file.
BeginCsv(e, file) ==
  /\ CanBegin
  /\ IF ~EventExists(events, e)
     THEN Answer(Failure("process_csv_upload", "not_found"))
     ELSE IF CsvMalformed(file)
     THEN Answer(Failure("process_csv_upload", "malformed"))
     ELSE IF OverCapacity(AttendeeCount(attendees, e), Len(CsvEmails(file)),
                          events[e].max_attendees)
     THEN Answer(Failure("process_csv_upload", "capacity"))
     ELSE IF DuplicateEmails(CsvEmails(file)) # {}
     THEN \E rep \in Truncated(DuplicateEmails(CsvEmails(file))) :
            Answer(Response("process_csv_upload", "duplicate_in_batch", rep, <<>>))
     ELSE Enter(Request("query", "process_csv_upload", e, CsvEmails(file), 0))
  /\ UNCHANGED <<events, attendees, now, users, middleware>>

\* The query for emails registered for the event, and its check.
QueryRegistered(q) ==
  /\ q.pc = "query"
  /\ q.op \in Registrations
  /\ IF ExistingEmails(attendees, q.event_id, q.emails) # {}
     THEN \E rep \in Truncated(ExistingEmails(attendees, q.event_id, q.emails)) :
            Return(q, Response(q.op, "duplicate_registered", rep, <<>>))
     ELSE Proceed(q, [q EXCEPT !.pc = "commit"])
  /\ UNCHANGED <<events, attendees, now, users, middleware>>

\* A commit that counts the attendees of the event again, as under a lock
\* held from the count to the commit (what C3 rules out).
CommitRegistrationCounted(q) ==
  LET over == OverCapacity(AttendeeCount(attendees, q.event_id), Len(q.emails),
                           events[q.event_id].max_attendees)
  IN /\ q.pc = "commit"
     /\ q.op \in Registrations
     /\ IdsFit(attendees, Len(q.emails))
     /\ attendees' = IF over THEN attendees
                    ELSE CommitRows(attendees, q.event_id, q.emails)
     /\ IF over
        THEN Return(q, Failure(q.op, "capacity"))
        ELSE IF UniqueViolation(attendees, q.emails)
        THEN Return(q, Failure(q.op, "integrity_error"))
        ELSE Return(q, Response(q.op, "ok", {}, NewIds(attendees, q.emails)))
     /\ UNCHANGED <<events, now, users, middleware>>

\* db.add of every candidate and db.commit.
CommitRegistration(q) ==
  /\ q.pc = "commit"
  /\ q.op \in Registrations
  /\ IdsFit(attendees, Len(q.emails))
  /\ attendees' = CommitRows(attendees, q.event_id, q.emails)
  /\ IF UniqueViolation(attendees, q.emails)
     THEN Return(q, Failure(q.op, "integrity_error"))
     ELSE Return(q, Response(q.op, "ok", {}, NewIds(attendees, q.emails)))
  /\ UNCHANGED <<events, now, users, middleware>>

\* The unique email column under UPDATE: another row has the new email.
UpdateViolation(att, id, email) ==
  \E b \in att : b.attendee_id # id /\ b.email = email

\* update_attendee (of the email): get_attendee.  With the email the attendee
\* has, nothing is checked and the session has no email to write.
BeginUpdate(id, email) ==
  /\ CanBegin
  /\ IF id \notin {a.attendee_id : a \in attendees}
     THEN Answer(Failure("update_attendee", "not_found"))
     ELSE LET a == CHOOSE x \in attendees : x.attendee_id = id
          IN IF email = a.email
             THEN Answer(Response("update_attendee", "ok", {}, <<>>))
             ELSE Enter(Request("query", "update_attendee", a.event_id, <<email>>, id))
  /\ UNCHANGED <<events, attendees, now, users, middleware>>

\* update_attendee: is the new email in use for the same event?
QueryOther(q) ==
  /\ q.pc = "query"
  /\ q.op = "update_attendee"
  /\ IF \E b \in attendees : /\ b.email = q.emails[1]
                              /\ b.event_id = q.event_id
                              /\ b.attendee_id # q.attendee_id
     THEN Return(q, Response("update_attendee", "duplicate_registered",
                             {q.emails[1]}, <<>>))
     ELSE Proceed(q, [q EXCEPT !.pc = "commit"])
  /\ UNCHANGED <<events, attendees, now, users, middleware>>

\* update_attendee: setattr and db.commit.
CommitUpdate(q) ==
  LET refused == UpdateViolation(attendees, q.attendee_id, q.emails[1])
  IN /\ q.pc = "commit"
     /\ q.op = "update_attendee"
     /\ attendees' =
          IF refused THEN attendees
          ELSE {IF a.attendee_id = q.attendee_id
                THEN [a EXCEPT !.email = q.emails[1]] ELSE a : a \in attendees}
     /\ IF refused
        THEN Return(q, Failure("update_attendee", "integrity_error"))
        ELSE Return(q, Response("update_attendee", "ok", {}, <<>>))
     /\ UNCHANGED <<events, now, users, middleware>>

\* One event of any capacity exists and holds no attendee; the batches are
\* those of Spec that have a candidate.
ConcBatches == Batches \ {<<>>}

ConcFiles ==
  {WellFormed(b) : b \in ConcBatches}
    \cup {[parses |-> FALSE, columns |-> {}, rows |-> <<>>]}

InitConc ==
  /\ \E m \in Capacities : events = [e \in {1} |-> NewEvent(m)]
  /\ attendees = {}
  /\ last = Failure("none", "none")
  /\ reqs = EmptyBag
  /\ now = 0
  /\ users = {}
  /\ middleware = AuthMiddleware(<<>>, <<>>)

NextConc ==
  \/ \E e \in DOMAIN events, email \in Emails : BeginCreate(e, email)
  \/ \E e \in DOMAIN events, b \in ConcBatches : BeginBulk(e, b)
  \/ \E e \in DOMAIN events, f \in ConcFiles : BeginCsv(e, f)
  \/ \E id \in AttendeeIds, email \in Emails : BeginUpdate(id, email)
  \/ \E q \in InFlight : QueryRegistered(q)
  \/ \E q \in InFlight : CommitRegistration(q)
  \/ \E q \in InFlight : QueryOther(q)
  \/ \E q \in InFlight : CommitUpdate(q)

SpecConc == InitConc /\ [][NextConc]_vars

\* ---- attendee update and check-in (SpecCheckIn) ----

\* AttendeeUpdate.dict(exclude_unset=True): the fields the request sets, of
\* email and check_in_status.
AttendeeUpdates ==
  {[f \in {} |-> TRUE]}
    \cup {[email |-> x] : x \in Emails}
    \cup {[check_in_status |-> c] : c \in BOOLEAN}
    \cup {[email |-> x, check_in_status |-> c] : x \in Emails, c \in BOOLEAN}

\* update_attendee: get_attendee, the check of a new email against the
\* attendees of the same event, setattr of every field set, commit.
update_attendee(id, attendee_data) ==
  /\ IF id \notin {a.attendee_id : a \in attendees}
     THEN /\ last' = Failure("update_attendee", "not_found")
          /\ UNCHANGED attendees
     ELSE LET attendee == CHOOSE a \in attendees : a.attendee_id = id
              changed == /\ "email" \in DOMAIN attendee_data
                         /\ attendee_data.email # attendee.email
          IN IF changed /\ \E b \in attendees : /\ b.email = attendee_data.email
                                                /\ b.event_id = attendee.event_id
                                                /\ b.attendee_id # id
             THEN /\ last' = Response("update_attendee", "duplicate_registered",
                                      {attendee_data.email}, <<>>)
                  /\ UNCHANGED attendees
             ELSE IF changed /\ UpdateViolation(attendees, id, attendee_data.email)
             THEN /\ last' = Failure("update_attendee", "integrity_error")
                  /\ UNCHANGED attendees
             ELSE /\ attendees' =
                       (attendees \ {attendee}) \cup
                         {[f \in DOMAIN attendee |->
                             IF f \in DOMAIN attendee_data THEN attendee_data[f]
                             ELSE attendee[f]]}
                  /\ last' = Response("update_attendee", "ok", {}, <<>>)
  /\ UNCHANGED <<events, reqs, now, users, middleware>>

\* A check-in that answers a checked-in attendee as it answers the others
\* (what C11 rules out).
check_in_attendeeSilent(id) ==
  /\ IF id \notin {a.attendee_id : a \in attendees}
     THEN /\ last' = Failure("check_in_attendee", "not_found")
          /\ UNCHANGED attendees
     ELSE LET attendee == CHOOSE a \in attendees : a.attendee_id = id
          IN /\ attendees' = (attendees \ {attendee})
                               \cup {[attendee EXCEPT !.check_in_status = TRUE]}
             /\ last' = Response("check_in_attendee", "ok", {}, <<id>>)
  /\ UNCHANGED <<events, reqs, now, users, middleware>>

\* check_in_attendee: get_attendee, refused when checked in, else set.
check_in_attendee(id) ==
  /\ IF id \notin {a.attendee_id : a \in attendees}
     THEN /\ last' = Failure("check_in_attendee", "not_found")
          /\ UNCHANGED attendees
     ELSE LET attendee == CHOOSE a \in attendees : a.attendee_id = id
          IN IF attendee.check_in_status
             THEN /\ last' = Failure("check_in_attendee", "already_checked_in")
                  /\ UNCHANGED attendees
             ELSE /\ attendees' = (attendees \ {attendee})
                                    \cup {[attendee EXCEPT !.check_in_status = TRUE]}
                  /\ last' = Response("check_in_attendee", "ok", {}, <<id>>)
  /\ UNCHANGED <<events, reqs, now, users, middleware>>

\* [id for id in attendee_ids if id not in found_ids]
MissingIds(attendee_ids, found_ids) ==
  SelectSeq(attendee_ids, LAMBDA id : id \notin found_ids)

\* The result of bulk_check_in.  already_checked_in and newly_checked_in list
\* every attendee the query returned once, in the order of the rows, which
\* nothing fixes: they are given as sets.
CheckInResult(attendee_ids, found, already) ==
  [op |-> "bulk_check_in", outcome |-> "ok",
   total |-> Len(attendee_ids),
   found |-> Cardinality(found),
   missing |-> MissingIds(attendee_ids, {a.attendee_id : a \in found}),
   already_checked_in |-> {a.attendee_id : a \in already},
   newly_checked_in |-> {a.attendee_id : a \in found \ already}]

\* A bulk check-in whose query has no filter on the event (what C14 rules
\* out).
bulk_check_inAnyEvent(e, attendee_ids) ==
  /\ IF ~EventExists(events, e)
     THEN /\ last' = Failure("bulk_check_in", "not_found")
          /\ UNCHANGED attendees
     ELSE LET found == {a \in attendees : a.attendee_id \in Range(attendee_ids)}
              already == {a \in found : a.check_in_status}
          IN /\ attendees' = (attendees \ found)
                               \cup {[a EXCEPT !.check_in_status = TRUE] : a \in found}
             /\ last' = CheckInResult(attendee_ids, found, already)
  /\ UNCHANGED <<events, reqs, now, users, middleware>>

\* bulk_check_in: get_event, the attendees of the event whose id is listed,
\* check_in_status set on those that are not checked in, commit.
bulk_check_in(e, attendee_ids) ==
  /\ IF ~EventExists(events, e)
     THEN /\ last' = Failure("bulk_check_in", "not_found")
          /\ UNCHANGED attendees
     ELSE LET found == {a \in attendees : /\ a.event_id = e
                                          /\ a.attendee_id \in Range(attendee_ids)}
              already == {a \in found : a.check_in_status}
          IN /\ attendees' = (attendees \ found)
                               \cup {[a EXCEPT !.check_in_status = TRUE] : a \in found}
             /\ last' = CheckInResult(attendee_ids, found, already)
  /\ UNCHANGED <<events, reqs, now, users, middleware>>

\* The ids given: those the store can have given here, and one more.
CheckInIds == 1..(NEmails + 1)

\* The id lists given: none, or the ids lo..hi, as they are or with the last
\* of them given twice.
IdLists ==
  LET runs == {[i \in 1..(hi - lo + 1) |-> lo + i - 1] :
                 lo \in CheckInIds, hi \in CheckInIds} \ {<<>>}
  IN {<<>>} \cup runs \cup {Append(l, l[Len(l)]) : l \in runs}

\* Two events exist and hold no attendee.
InitCheckIn ==
  /\ events = [e \in {1, 2} |-> NewEvent(MaxCapacity)]
  /\ attendees = {}
  /\ last = Failure("none", "none")
  /\ reqs = EmptyBag
  /\ now = 0
  /\ users = {}
  /\ middleware = AuthMiddleware(<<>>, <<>>)

NextCheckIn ==
  \/ \E e \in DOMAIN events, email \in Emails : create_attendee(e, email)
  \/ \E id \in CheckInIds, u \in AttendeeUpdates : update_attendee(id, u)
  \/ \E id \in CheckInIds : check_in_attendee(id)
  \/ \E e \in {1, 2}, l \in IdLists : bulk_check_in(e, l)

SpecCheckIn == InitCheckIn /\ [][NextCheckIn]_vars

\* ---- deletion of events and attendees (SpecDelete) ----
\* Two events exist and hold no attendee; attendees are registered, updated
\* and deleted, events are deleted.
NextDelete ==
  \/ \E e \in {1, 2}, email \in Emails : create_attendee(e, email)
  \/ \E e \in {1, 2}, b \in Batches : bulk_create_attendees(e, b)
  \/ \E id \in AttendeeIds, u \in AttendeeUpdates : update_attendee(id, u)
  \/ \E id \in AttendeeIds : delete_attendee(id)
  \/ \E e \in {1, 2} : delete_event(e)

SpecDelete == InitCheckIn /\ [][NextDelete]_vars

\* ---- event status over time (SpecStatus) ----

\* update_event_statuses: the rows of its two queries at the time it reads.
ongoing_eventsStarted(evs, t) ==
  {e \in DOMAIN evs : evs[e].status = "scheduled" /\ evs[e].start_time <= t}

ongoing_events(evs, t) ==
  {e \in DOMAIN evs : /\ evs[e].status = "scheduled"
                      /\ evs[e].start_time <= t
                      /\ evs[e].end_time > t}

completed_eventsAnyStatus(evs, t) ==
  {e \in DOMAIN evs : evs[e].end_time <= t}

completed_events(evs, t) ==
  {e \in DOMAIN evs : /\ evs[e].status \in {"scheduled", "ongoing"}
                      /\ evs[e].end_time <= t}

\* The two loops of assignments, the ongoing rows first.
Assigned(evs, rows, status) ==
  [e \in DOMAIN evs |->
     IF e \in rows THEN [evs[e] EXCEPT !.status = status] ELSE evs[e]]

SweptEvents(evs, t) ==
  Assigned(Assigned(evs, ongoing_events(evs, t), "ongoing"),
           completed_events(evs, t), "completed")

SweepResult(evs, t) ==
  [op |-> "update_event_statuses", outcome |-> "ok",
   ongoing |-> Cardinality(ongoing_events(evs, t)),
   completed |-> Cardinality(completed_events(evs, t)),
   now |-> t]

\* A sweep that moves an event one stage at a time (what C17 rules out).
update_event_statusesByStage ==
  LET started == {e \in DOMAIN events : /\ events[e].status = "scheduled"
                                        /\ events[e].start_time <= now}
      ended == {e \in DOMAIN events : /\ events[e].status = "ongoing"
                                      /\ events[e].end_time <= now}
  IN /\ events' = Assigned(Assigned(events, started, "ongoing"),
                           ended, "completed")
     /\ last' = [op |-> "update_event_statuses", outcome |-> "ok",
                 ongoing |-> Cardinality(started),
                 completed |-> Cardinality(ended), now |-> now]
     /\ UNCHANGED <<attendees, reqs, now, users, middleware>>

\* update_event_statuses: one run, from the read of the clock to the commit.
update_event_statuses ==
  /\ events' = SweptEvents(events, now)
  /\ last' = SweepResult(events, now)
  /\ UNCHANGED <<attendees, reqs, now, users, middleware>>

\* The status filter of a listing; NoFilter is the parameter left out.
NoFilter == "none"
StatusFilters == {NoFilter} \cup Statuses

Listing(evs, status) ==
  LET found == {e \in DOMAIN evs : status = NoFilter \/ evs[e].status = status}
  IN [op |-> "list_events", outcome |-> "ok",
      events |-> [e \in found |-> evs[e]], total |-> Cardinality(found)]

\* A listing that queries the events as stored (what C18 rules out).
list_eventsStored(status) ==
  /\ last' = Listing(events, status)
  /\ UNCHANGED <<events, attendees, reqs, now, users, middleware>>

\* GET /events: the sweep, then the query with the status filter.
list_events(status) ==
  /\ events' = SweptEvents(events, now)
  /\ last' = Listing(events', status)
  /\ UNCHANGED <<attendees, reqs, now, users, middleware>>

\* The clock moves on between two requests.
Tick ==
  /\ now < MaxTime
  /\ now' = now + 1
  /\ UNCHANGED <<events, attendees, last, reqs, users, middleware>>

\* The events requested: any two times, the default status or canceled.
EventCreates ==
  {Event(MaxCapacity, s, e, st) :
     s \in Times, e \in Times, st \in {"scheduled", "canceled"}}

\* The updates requested: a status, one of the times, or both times.
StatusUpdates ==
  {[status |-> st] : st \in Statuses}
    \cup {[start_time |-> t] : t \in Times}
    \cup {[end_time |-> t] : t \in Times}
    \cup {[start_time |-> t, end_time |-> t + 1] : t \in Times \ {MaxTime}}

NextStatus ==
  \/ \E event_data \in EventCreates : create_event(event_data)
  \/ \E e \in EventIds, u \in StatusUpdates : update_event(e, u)
  \/ update_event_statuses
  \/ \E status \in StatusFilters : list_events(status)
  \/ Tick

SpecStatus == Init /\ [][NextStatus]_vars

\* ---- the two batch entry points (SpecCsv) ----
\* Two stored events; event id 3 is stored at no time.
CsvEventIds == 1..3

NextCsv ==
  \/ \E e \in {1, 2}, email \in Emails : create_attendee(e, email)
  \/ \E e \in CsvEventIds, b \in Batches : bulk_create_attendees(e, b)
  \/ \E e \in CsvEventIds, f \in CsvFiles : process_csv_upload(e, f)
  \/ \E id \in AttendeeIds : delete_attendee(id)

SpecCsv == InitCheckIn /\ [][NextCsv]_vars

\* ---- reads of the store, and ids that are not stored (SpecLookup) ----

\* get_event for a request of its own: the stored event or not-found.
get_event(e) ==
  /\ last' = IF ~EventExists(events, e) THEN Failure("get_event", "not_found")
             ELSE [op |-> "get_event", outcome |-> "ok", event_id |-> e,
                   event |-> events[e]]
  /\ UNCHANGED <<events, attendees, reqs, now, users, middleware>>

\* get_attendee: the stored attendee or not-found.
get_attendee(id) ==
  /\ last' = IF id \notin {a.attendee_id : a \in attendees}
             THEN Failure("get_attendee", "not_found")
             ELSE [op |-> "get_attendee", outcome |-> "ok",
                   attendee |-> CHOOSE a \in attendees : a.attendee_id = id]
  /\ UNCHANGED <<events, attendees, reqs, now, users, middleware>>

\* The checked_in parameter: <<>> when left out, else <<TRUE>> or <<FALSE>>.
CheckedInFilters == {<<>>, <<TRUE>>, <<FALSE>>}

\* The rows of the event that pass the filter (query and count_query).
Matching(att, e, checked_in) ==
  {a \in att : /\ a.event_id = e
               /\ checked_in = <<>> \/ a.check_in_status = checked_in[1]}

\* ORDER BY first_name, last_name.
Before(a, b) ==
  \/ a.first_name < b.first_name
  \/ a.first_name = b.first_name /\ a.last_name < b.last_name

\* The orders the store may return the rows in: sorted by the two names,
\* rows of equal names in any order.
Ordered(rows) ==
  {s \in [1..Cardinality(rows) -> rows] :
     \A i, j \in 1..Cardinality(rows) :
       i < j => s[i] # s[j] /\ ~Before(s[j], s[i])}

\* OFFSET skip LIMIT limit of the ordered rows.
Page(ordered, skip, limit) ==
  SubSeq(ordered, skip + 1, Min2(skip + limit, Len(ordered)))

\* A listing whose page starts at the first row (what C30 rules out).
list_attendeesFirstPage(e, page, page_size, checked_in) ==
  /\ IF ~EventExists(events, e)
     THEN last' = Failure("list_attendees", "not_found")
     ELSE \E ordered \in Ordered(Matching(attendees, e, checked_in)) :
            last' = [op |-> "list_attendees", outcome |-> "ok",
                     attendees |-> Page(ordered, 0, page_size),
                     total |-> Len(ordered),
                     page |-> page, page_size |-> page_size]
  /\ UNCHANGED <<events, attendees, reqs, now, users, middleware>>

\* GET /attendees/event/{event_id}: get_event, the count, the page.
list_attendees(e, page, page_size, checked_in) ==
  /\ IF ~EventExists(events, e)
     THEN last' = Failure("list_attendees", "not_found")
     ELSE \E ordered \in Ordered(Matching(attendees, e, checked_in)) :
            last' = [op |-> "list_attendees", outcome |-> "ok",
                     attendees |-> Page(ordered, (page - 1) * page_size, page_size),
                     total |-> Len(ordered),
                     page |-> page, page_size |-> page_size]
  /\ UNCHANGED <<events, attendees, reqs, now, users, middleware>>

\* Every operation on an event id or an attendee id; event id 3 is stored
\* at no time, and two candidates leave an attendee id free.
LookupEmails == {1, 2}

NextLookup ==
  \/ \E e \in CsvEventIds : get_event(e)
  \/ \E e \in CsvEventIds : update_event(e, [max_attendees |-> MaxCapacity])
  \/ \E e \in CsvEventIds : delete_event(e)
  \/ \E e \in CsvEventIds, email \in LookupEmails : create_attendee(e, email)
  \/ \E e \in CsvEventIds : bulk_create_attendees(e, <<1>>)
  \/ \E e \in CsvEventIds : process_csv_upload(e, WellFormed(<<1>>))
  \/ \E e \in CsvEventIds : list_attendees(e, 1, MaxCapacity, <<>>)
  \/ \E e \in CsvEventIds, id \in AttendeeIds : bulk_check_in(e, <<id>>)
  \/ \E id \in AttendeeIds : get_attendee(id)
  \/ \E id \in AttendeeIds : update_attendee(id, [check_in_status |-> TRUE])
  \/ \E id \in AttendeeIds : delete_attendee(id)
  \/ \E id \in AttendeeIds : check_in_attendee(id)

SpecLookup == InitCheckIn /\ [][NextLookup]_vars

\* ---- sparse updates (SpecUpdate) ----

\* The names an update gives, as ranks in alphabetical order.
Names == {0, 1}

\* AttendeeUpdate requests that set one field, or a name with the email.
SparseAttendeeUpdates ==
  {[first_name |-> n] : n \in Names}
    \cup {[email |-> x] : x \in LookupEmails}
    \cup {[check_in_status |-> c] : c \in BOOLEAN}
    \cup {[first_name |-> n, email |-> x] : n \in Names, x \in LookupEmails}

\* EventUpdate requests that set the capacity, the status, or both.
SparseEventUpdates ==
  {[max_attendees |-> m] : m \in {1, MaxCapacity}}
    \cup {[status |-> "canceled"]}
    \cup {[max_attendees |-> m, status |-> "canceled"] : m \in {1, MaxCapacity}}

\* The attendee ids addressed: those of two candidates and a free one.
SparseAttendeeIds == 1..(Cardinality(LookupEmails) + 1)

NextUpdate ==
  \/ \E e \in {1, 2}, email \in LookupEmails : create_attendee(e, email)
  \/ \E id \in SparseAttendeeIds, u \in SparseAttendeeUpdates : update_attendee(id, u)
  \/ \E e \in CsvEventIds, u \in SparseEventUpdates : update_event(e, u)

SpecUpdate == InitCheckIn /\ [][NextUpdate]_vars

\* ---- listing of attendees (SpecList) ----

\* Two candidates; the pages asked for and their sizes.
ListEmails == LookupEmails
Pages == 1..3
PageSizes == 1..2

\* AttendeeUpdate requests that rename.
Renames ==
  {[first_name |-> n] : n \in Names} \cup {[last_name |-> n] : n \in Names}

NextList ==
  \/ \E e \in {1, 2}, email \in ListEmails : create_attendee(e, email)
  \/ \E id \in SparseAttendeeIds, u \in Renames : update_attendee(id, u)
  \/ \E id \in SparseAttendeeIds : check_in_attendee(id)
  \/ \E e \in {1, 2}, page \in Pages, page_size \in PageSizes,
        checked_in \in CheckedInFilters :
       list_attendees(e, page, page_size, checked_in)

SpecList == InitCheckIn /\ [][NextList]_vars

\* ---- concurrent check-ins (SpecCheckInConc) ----
\* check_in_attendee in two steps, as the requests of SpecConc: get_attendee
\* and the test of the flag, then the commit of the flag set.

\* check_in_attendee up to the test of check_in_status.
BeginCheckIn(id) ==
  /\ CanBegin
  /\ IF id \notin {a.attendee_id : a \in attendees}
     THEN Answer(Failure("check_in_attendee", "not_found"))
     ELSE IF (CHOOSE a \in attendees : a.attendee_id = id).check_in_status
     THEN Answer(Failure("check_in_attendee", "already_checked_in"))
     ELSE Enter(Request("commit", "check_in_attendee", 0, <<>>, id))
  /\ UNCHANGED <<events, attendees, now, users, middleware>>

\* The commit: UPDATE attendees SET check_in_status = 1 of the row read.
CommitCheckIn(q) ==
  /\ q \in InFlight
  /\ q.op = "check_in_attendee"
  /\ q.pc = "commit"
  /\ attendees' = {IF a.attendee_id = q.attendee_id
                   THEN [a EXCEPT !.check_in_status = TRUE] ELSE a :
                   a \in attendees}
  /\ Return(q, Response("check_in_attendee", "ok", {}, <<q.attendee_id>>))
  /\ UNCHANGED <<events, now, users, middleware>>

NextCheckInConc ==
  \/ \E e \in {1, 2}, email \in Emails : create_attendee(e, email)
  \/ \E id \in CheckInIds : BeginCheckIn(id)
  \/ \E q \in InFlight : CommitCheckIn(q)

SpecCheckInConc == InitCheckIn /\ [][NextCheckInConc]_vars

\* ---- users (SpecUsers) ----

\* Usernames and emails of users are abstract values like the attendees'
\* emails; user ids are given like the other primary keys.
Usernames == Emails
UserIds == AttendeeIds

User(id, username, email) ==
  [user_id |-> id, username |-> username, email |-> email]

\* UserCreate: username and email.
UserCreates == [username : Usernames, email : Emails]

\* UserUpdate.dict(exclude_unset=True): the username, the email or both.
UserUpdates ==
  {[username |-> n] : n \in Usernames}
    \cup {[email |-> x] : x \in Emails}
    \cup [username : Usernames, email : Emails]

\* get_user_by_username, get_user_by_email: is there such a user.
UsernameExists(us, username) == \E u \in us : u.username = username
EmailExists(us, email) == \E u \in us : u.email = email

\* create_user: the two checks, then the insert.
create_user(user_data) ==
  /\ IF UsernameExists(users, user_data.username)
     THEN /\ last' = Failure("create_user", "username_exists")
          /\ UNCHANGED users
     ELSE IF EmailExists(users, user_data.email)
     THEN /\ last' = Failure("create_user", "email_exists")
          /\ UNCHANGED users
     ELSE LET id == NextId({u.user_id : u \in users})
          IN /\ id \in UserIds
             /\ users' = users \cup {User(id, user_data.username, user_data.email)}
             /\ last' = Response("create_user", "ok", {}, <<id>>)
  /\ UNCHANGED <<events, attendees, reqs, now, middleware>>

\* An update that checks the username only (what C26 rules out); the store
\* is taken to accept the row.
update_userEmailUnchecked(id, user_data) ==
  /\ IF id \notin {u.user_id : u \in users}
     THEN /\ last' = Failure("update_user", "not_found")
          /\ UNCHANGED users
     ELSE LET user == CHOOSE u \in users : u.user_id = id
          IN IF /\ "username" \in DOMAIN user_data
                /\ user_data.username # user.username
                /\ UsernameExists(users, user_data.username)
             THEN /\ last' = Failure("update_user", "username_exists")
                  /\ UNCHANGED users
             ELSE /\ users' = (users \ {user}) \cup
                               {[f \in DOMAIN user |->
                                   IF f \in DOMAIN user_data THEN user_data[f]
                                   ELSE user[f]]}
                  /\ last' = Response("update_user", "ok", {}, <<id>>)
  /\ UNCHANGED <<events, attendees, reqs, now, middleware>>

\* update_user: get_user, the check of a new username and of a new email,
\* setattr of every field set, commit.
update_user(id, user_data) ==
  /\ IF id \notin {u.user_id : u \in users}
     THEN /\ last' = Failure("update_user", "not_found")
          /\ UNCHANGED users
     ELSE LET user == CHOOSE u \in users : u.user_id = id
          IN IF /\ "username" \in DOMAIN user_data
                /\ user_data.username # user.username
                /\ UsernameExists(users, user_data.username)
             THEN /\ last' = Failure("update_user", "username_exists")
                  /\ UNCHANGED users
             ELSE IF /\ "email" \in DOMAIN user_data
                     /\ user_data.email # user.email
                     /\ EmailExists(users, user_data.email)
             THEN /\ last' = Failure("update_user", "email_exists")
                  /\ UNCHANGED users
             ELSE /\ users' = (users \ {user}) \cup
                               {[f \in DOMAIN user |->
                                   IF f \in DOMAIN user_data THEN user_data[f]
                                   ELSE user[f]]}
                  /\ last' = Response("update_user", "ok", {}, <<id>>)
  /\ UNCHANGED <<events, attendees, reqs, now, middleware>>

\* delete_user: get_user, delete, commit.
delete_user(id) ==
  /\ IF id \notin {u.user_id : u \in users}
     THEN /\ last' = Failure("delete_user", "not_found")
          /\ UNCHANGED users
     ELSE /\ users' = {u \in users : u.user_id # id}
          /\ last' = Response("delete_user", "ok", {}, <<id>>)
  /\ UNCHANGED <<events, attendees, reqs, now, middleware>>

NextUsers ==
  \/ \E user_data \in UserCreates : create_user(user_data)
  \/ \E id \in UserIds, user_data \in UserUpdates : update_user(id, user_data)
  \/ \E id \in UserIds : delete_user(id)

SpecUsers == Init /\ [][NextUsers]_vars

\* ---- requests through the authentication middleware (SpecAuth) ----

\* The Authorization header: none, one of another scheme, "Bearer " with a
\* token jwt.decode accepts, "Bearer " with a token it rejects.
Authorizations == {"none", "basic", "bearer_valid", "bearer_invalid"}

\* auth_header and auth_header.startswith("Bearer ")
HasBearer(authorization) == authorization \in {"bearer_valid", "bearer_invalid"}

Paths ==
  { <<"/">>, <<"/", "docs">>, <<"/", "openapi.json">>,
    <<"/", "users">>, <<"/", "users", "/", "login">>, <<"/", "users", "/", "1">>,
    <<"/", "events">>, <<"/", "events", "/", "1">>,
    <<"/", "attendees", "/", "1">>, <<"/", "attendees", "/", "event", "/", "1">> }

\* The ASGI scope: its type and, of an http request, path and header.
Scopes ==
  [type : {"http", "websocket"}, path : Paths, authorization : Authorizations]

\* What became of a request: passed to the wrapped application (with the
\* token's payload in request.state.user or without), answered by
\* unauthorized_response, or ended by the exception verify_token raises.
Handled(scope, outcome, user) ==
  [op |-> "request", outcome |-> outcome, user |-> user, scope |-> scope]

\* verify_token: the payload, or HTTPException for a token jwt.decode rejects.
verify_token(authorization) ==
  IF authorization = "bearer_valid" THEN "payload" ELSE "HTTPException"

\* any(path.startswith(excluded) for excluded in self.exclude_paths)
Excluded(mw, path) ==
  \E i \in DOMAIN mw.exclude_paths : startswith(path, mw.exclude_paths[i])

\* any(path.startswith(public) for public in self.public_paths)
Public(mw, path) ==
  \E i \in DOMAIN mw.public_paths : startswith(path, mw.public_paths[i])

\* AuthMiddleware.__call__ for one request.  except JWTError does not catch
\* the HTTPException of verify_token, which leaves __call__.
call(scope) ==
  /\ last' =
       IF scope.type # "http" THEN Handled(scope, "passed", "none")
       ELSE IF Excluded(middleware, scope.path)
       THEN Handled(scope, "passed", "none")
       ELSE IF ~HasBearer(scope.authorization)
       THEN IF Public(middleware, scope.path)
            THEN Handled(scope, "passed", "none")
            ELSE Handled(scope, "unauthorized", "none")
       ELSE IF verify_token(scope.authorization) = "HTTPException"
       THEN Handled(scope, "exception", "none")
       ELSE Handled(scope, "passed", "payload")
  /\ UNCHANGED <<events, attendees, reqs, now, users, middleware>>

\* The middleware is installed with the defaults, or with paths of its own
\* that do not hold "/".
InitAuth ==
  /\ events = <<>>
  /\ attendees = {}
  /\ last = Failure("none", "none")
  /\ reqs = EmptyBag
  /\ now = 0
  /\ users = {}
  /\ middleware \in
       {AuthMiddleware(<<>>, <<>>),
        AuthMiddleware(<< <<"/", "docs">>, <<"/", "users", "/", "login">> >>, <<>>)}

NextAuth == \E scope \in Scopes : call(scope)

SpecAuth == InitAuth /\ [][NextAuth]_vars

\* ---- what the claims speak of ----
StoredEmails(e) == {a.email : a \in {b \in attendees : b.event_id = e}}
Repeats(emails) == \E i, j \in DOMAIN emails : i # j /\ emails[i] = emails[j]
DuplicateError(outcome) == outcome \in {"duplicate_in_batch", "duplicate_registered"}

\* C1: a registration of N candidates for an existing event that holds
\* count attendees with count + N > max_attendees fails with the capacity
\* error and leaves the stored attendees as they were (create_attendee with
\* N = 1, the JSON batch, the well-formed CSV file): a step that is not such
\* a refusal is no such call.
C1_CapacityRejectsCall ==
  LET over(e, n) == AttendeeCount(attendees, e) + n > events[e].max_attendees
      refused == last'.outcome = "capacity" /\ attendees' = attendees
  IN refused \/
       /\ last'.op = "create_attendee" =>
            \A e \in DOMAIN events, email \in Emails :
              ~(over(e, 1) /\ create_attendee(e, email))
       /\ last'.op = "bulk_create_attendees" =>
            \A e \in DOMAIN events, b \in Batches :
              ~(over(e, Len(b)) /\ bulk_create_attendees(e, b))
       /\ last'.op = "process_csv_upload" =>
            \A e \in DOMAIN events, b \in Batches :
              ~(over(e, Len(b)) /\ process_csv_upload(e, WellFormed(b)))

C1_CapacityRejects == [][C1_CapacityRejectsCall]_vars

\* C1 witness: a batch was refused for capacity at an event that already has
\* an attendee and is not yet full.
C1_Witness ==
  /\ last.op \in BulkRegistrations
  /\ last.outcome = "capacity"
  /\ \E e \in DOMAIN events :
       /\ AttendeeCount(attendees, e) >= 1
       /\ AttendeeCount(attendees, e) < events[e].max_attendees

\* C2: in every state of sequential operation, each event has at most
\* max_attendees attendees.
C2_CapacityInvariant ==
  \A e \in DOMAIN events : AttendeeCount(attendees, e) <= events[e].max_attendees

\* C3: nothing stands between the count a registration read and its commit:
\* a commit the store does not refuse writes every candidate, whatever the
\* number of attendees the event has by then; so two registrations that both
\* passed the capacity check before either committed leave the event with
\* more attendees than max_attendees (the witness).
C3_CommitIgnoresCountStep ==
  \A q \in InFlight :
    (CommitRegistration(q) /\ ~UniqueViolation(attendees, q.emails))
      => AttendeeCount(attendees', q.event_id)
           = AttendeeCount(attendees, q.event_id) + Len(q.emails)

C3_CommitIgnoresCount == [][C3_CommitIgnoresCountStep]_vars

\* C3 witness: a registration has just succeeded and its event, whose
\* max_attendees never changed, holds more attendees than that.
C3_Witness ==
  /\ last.op \in Registrations
  /\ last.outcome = "ok"
  /\ \E e \in DOMAIN events : AttendeeCount(attendees, e) > events[e].max_attendees

\* C4 as stated: a batch that repeats an email fails with a duplicate-email
\* error and creates nothing, whatever its size.
C4_RepeatedEmailIsDuplicateErrorCall ==
  \A e \in DOMAIN events, b \in {x \in Batches : Repeats(x)} :
    /\ last'.op = "bulk_create_attendees" =>
         (bulk_create_attendees(e, b)
            => (DuplicateError(last'.outcome) /\ attendees' = attendees))
    /\ last'.op = "process_csv_upload" =>
         (process_csv_upload(e, WellFormed(b))
            => (DuplicateError(last'.outcome) /\ attendees' = attendees))

C4_RepeatedEmailIsDuplicateError == [][C4_RepeatedEmailIsDuplicateErrorCall]_vars

\* C4 amended: a batch that repeats an email creates nothing; it fails with
\* the capacity error when count + N > max_attendees, and otherwise with the
\* duplicate-email error, which names only emails the batch repeats.
C4_RepeatedEmailOutcome(e, b) ==
  /\ attendees' = attendees
  /\ IF AttendeeCount(attendees, e) + Len(b) > events[e].max_attendees
     THEN last'.outcome = "capacity"
     ELSE /\ last'.outcome = "duplicate_in_batch"
          /\ last'.reported # {}
          /\ \A x \in last'.reported :
               \E i, j \in DOMAIN b : i # j /\ b[i] = x /\ b[j] = x

C4_RepeatedEmailRejectedCall ==
  \A e \in DOMAIN events, b \in {x \in Batches : Repeats(x)} :
    /\ last'.op = "bulk_create_attendees" =>
         (bulk_create_attendees(e, b) => C4_RepeatedEmailOutcome(e, b))
    /\ last'.op = "process_csv_upload" =>
         (process_csv_upload(e, WellFormed(b)) => C4_RepeatedEmailOutcome(e, b))

C4_RepeatedEmailRejected == [][C4_RepeatedEmailRejectedCall]_vars

\* C4 witness: a batch that fits the event was refused for a repeated email.
C4_Witness ==
  /\ last.op \in BulkRegistrations
  /\ last.outcome = "duplicate_in_batch"
  /\ last.reported # {}

\* C5: a batch that fits the event and repeats no email, one of whose emails
\* is registered for the event, fails with the duplicate-email error; nothing
\* is stored, and the error names at most 5 emails, each registered for the
\* event.
C5_RegisteredEmailOutcome(e) ==
  /\ last'.outcome = "duplicate_registered"
  /\ attendees' = attendees
  /\ Cardinality(last'.reported) <= 5
  /\ last'.reported \subseteq StoredEmails(e)

C5_RegisteredEmailRejectedCall ==
  \A e \in DOMAIN events, b \in BatchInputs :
    (/\ AttendeeCount(attendees, e) + Len(b) <= events[e].max_attendees
     /\ ~Repeats(b)
     /\ Range(b) \cap StoredEmails(e) # {})
      => /\ bulk_create_attendees(e, b) => C5_RegisteredEmailOutcome(e)
         /\ process_csv_upload(e, WellFormed(b)) => C5_RegisteredEmailOutcome(e)

C5_RegisteredEmailRejected == [][C5_RegisteredEmailRejectedCall]_vars

\* C5 witness: a batch was refused for registered emails, the error names 5
\* of the more than 5 attendees of the event.
C5_Witness ==
  /\ last.op \in BulkRegistrations
  /\ last.outcome = "duplicate_registered"
  /\ Cardinality(last.reported) = 5
  /\ \E e \in DOMAIN events :
       /\ last.reported \subseteq StoredEmails(e)
       /\ Cardinality(StoredEmails(e)) > 5

\* C6: the rules are applied in the order capacity, repeated email in the
\* batch, email registered for the event: a batch fails with the error of the
\* first rule it violates, and the store changes only when it violates none.
FirstViolated(e, b) ==
  IF AttendeeCount(attendees, e) + Len(b) > events[e].max_attendees THEN "capacity"
  ELSE IF Repeats(b) THEN "duplicate_in_batch"
  ELSE IF Range(b) \cap StoredEmails(e) # {} THEN "duplicate_registered"
  ELSE "none"

C6_RuleOrderOutcome(e, b) ==
  /\ FirstViolated(e, b) # "none"
       => (last'.outcome = FirstViolated(e, b) /\ attendees' = attendees)
  /\ attendees' # attendees => FirstViolated(e, b) = "none"

C6_RuleOrderCall ==
  \A e \in DOMAIN events, b \in BatchInputs :
    /\ bulk_create_attendees(e, b) => C6_RuleOrderOutcome(e, b)
    /\ process_csv_upload(e, WellFormed(b)) => C6_RuleOrderOutcome(e, b)

C6_RuleOrder == [][C6_RuleOrderCall]_vars

\* C6 witness: a batch that fits was refused for a repeated email which is
\* also registered for the event (it violates the second and the third rule).
C6_Witness ==
  /\ last.op \in BulkRegistrations
  /\ last.outcome = "duplicate_in_batch"
  /\ \E e \in DOMAIN events :
       /\ last.reported \cap StoredEmails(e) # {}
       /\ AttendeeCount(attendees, e) + 2 <= events[e].max_attendees

\* C7: the stored attendees change at the commit of a request only, and the
\* commit of a bulk registration, also one the store refuses for its unique
\* email column, leaves them as they were or adds one attendee of the event
\* per candidate of the batch.
C7_AllOrNothingStep ==
  /\ attendees' # attendees
       => \E q \in InFlight : CommitRegistration(q) \/ CommitUpdate(q)
  /\ \A q \in InFlight :
       (q.op \in BulkRegistrations /\ CommitRegistration(q))
         => \/ attendees' = attendees
            \/ /\ attendees \subseteq attendees'
               /\ Cardinality(attendees' \ attendees) = Len(q.emails)
               /\ \A i \in DOMAIN q.emails :
                    \E a \in attendees' \ attendees :
                      a.email = q.emails[i] /\ a.event_id = q.event_id

C7_AllOrNothing == [][C7_AllOrNothingStep]_vars

\* C7 witness: the store refused the commit of a bulk registration although
\* the first email of the batch is stored for no attendee, so the batch had a
\* candidate that could have been written and one that could not.
C7_Witness ==
  /\ last.op \in BulkRegistrations
  /\ last.outcome = "integrity_error"
  /\ 1 \notin {a.email : a \in attendees}
  /\ attendees # {}

\* C8: a batch of N candidates that passes the three rules stores N new
\* attendees of the event, not checked in, with the candidates' emails, and
\* returns total_created = N and N distinct ids that no attendee had.
C8_AdmittedOutcome(e, b) ==
  /\ last'.outcome = "ok"
  /\ last'.total_created = Len(b)
  /\ Len(last'.attendee_ids) = Len(b)
  /\ \A i, j \in DOMAIN b : i # j => last'.attendee_ids[i] # last'.attendee_ids[j]
  /\ \A i \in DOMAIN b : last'.attendee_ids[i] \notin {a.attendee_id : a \in attendees}
  /\ attendees \subseteq attendees'
  /\ attendees' \ attendees =
       {[attendee_id |-> last'.attendee_ids[i], email |-> b[i], event_id |-> e,
         check_in_status |-> FALSE] : i \in DOMAIN b}
  /\ Cardinality(attendees' \ attendees) = Len(b)

C8_AdmittedBatchStoredCall ==
  \A e \in DOMAIN events, b \in BatchInputs :
    FirstViolated(e, b) = "none"
      => /\ bulk_create_attendees(e, b) => C8_AdmittedOutcome(e, b)
         /\ process_csv_upload(e, WellFormed(b)) => C8_AdmittedOutcome(e, b)

C9_EmailUniquePerEvent ==
  \A a \in attendees, b \in attendees :
    (a.event_id = b.event_id /\ a.email = b.email) => a = b

\* C9 witness: two requests had both found an email free for the event; one
\* stored it and the other's commit was refused.
C9_Witness ==
  /\ last.op \in {"create_attendee", "update_attendee"}
  /\ last.outcome = "integrity_error"
  /\ \E e \in DOMAIN events : StoredEmails(e) # {}

\* C10: an email registered for one event and not for another event that has
\* free capacity can be registered for that one: create_attendee succeeds and
\* stores the attendee.
C10_OtherEventCall ==
  \A e1 \in DOMAIN events, e2 \in DOMAIN events, email \in Emails :
    /\ (/\ e1 # e2
        /\ email \in StoredEmails(e1)
        /\ email \notin StoredEmails(e2)
        /\ AttendeeCount(attendees, e2) < events[e2].max_attendees
        /\ create_attendee(e2, email))
         => /\ last'.outcome = "ok"
            /\ \E a \in attendees' : a.email = email /\ a.event_id = e2
    /\ \A b \in BatchInputs :
         (/\ e1 # e2
          /\ email \in StoredEmails(e1)
          /\ email \in Range(b)
          /\ FirstViolated(e2, b) = "none"
          /\ bulk_create_attendees(e2, b))
           => /\ last'.outcome = "ok"
              /\ \E a \in attendees' : a.email = email /\ a.event_id = e2

C10_SameEmailOtherEvent == [][C10_OtherEventCall]_vars

\* C11: check_in_attendee of a stored attendee that is not checked in
\* succeeds and sets check_in_status; of one that is checked in (so the second
\* of two successive calls) it fails with already-checked-in and leaves every
\* record as it was.
C11_CheckInTwiceCall ==
  last'.op = "check_in_attendee" =>
    \A a \in attendees :
      check_in_attendee(a.attendee_id) =>
        IF a.check_in_status
        THEN /\ last'.outcome = "already_checked_in"
             /\ attendees' = attendees
             /\ events' = events
        ELSE /\ last'.outcome = "ok"
             /\ attendees' = (attendees \ {a})
                               \cup {[a EXCEPT !.check_in_status = TRUE]}
             /\ events' = events

C11_CheckInTwice == [][C11_CheckInTwiceCall]_vars

\* C11 witness: a check-in was refused because the attendee is checked in.
C11_Witness ==
  /\ last.op = "check_in_attendee"
  /\ last.outcome = "already_checked_in"
  /\ \E a \in attendees : a.check_in_status

\* C12: no step sets the check_in_status of an attendee back to false.
C12_CheckInOneWayStep ==
  \A a \in attendees, b \in attendees' :
    (a.attendee_id = b.attendee_id /\ a.check_in_status) => b.check_in_status

C12_CheckInOneWay == [][C12_CheckInOneWayStep]_vars

\* C13: bulk_check_in on an existing event puts every id given in exactly
\* one of missing, already_checked_in, newly_checked_in, and the three sizes
\* add up to the length of the input, which is total.
C13_PartitionCall ==
  last'.op = "bulk_check_in" =>
    \A e \in DOMAIN events, l \in {x \in IdLists : Len(x) = last'.total} :
      bulk_check_in(e, l) =>
        /\ last'.total = Len(l)
        /\ \A i \in DOMAIN l :
             Cardinality({c \in {"missing", "already", "newly"} :
                \/ c = "missing" /\ l[i] \in Range(last'.missing)
                \/ c = "already" /\ l[i] \in last'.already_checked_in
                \/ c = "newly" /\ l[i] \in last'.newly_checked_in}) = 1
        /\ Cardinality(last'.newly_checked_in)
             + Cardinality(last'.already_checked_in)
             + Len(last'.missing) = Len(l)

C13_Partition == [][C13_PartitionCall]_vars

\* C14: bulk_check_in on an existing event succeeds whatever ids are given;
\* afterwards every listed attendee of the event is checked in, a listed id
\* of an attendee of another event is reported missing, and every attendee
\* that is not a listed attendee of the event is as it was.
C14_BulkCheckInCall ==
  last'.op = "bulk_check_in" =>
    \A e \in DOMAIN events, l \in {x \in IdLists : Len(x) = last'.total} :
      bulk_check_in(e, l) =>
        /\ last'.outcome = "ok"
        /\ events' = events
        /\ {a.attendee_id : a \in attendees'} = {a.attendee_id : a \in attendees}
        /\ \A a \in attendees :
             IF a.event_id = e /\ a.attendee_id \in Range(l)
             THEN [a EXCEPT !.check_in_status = TRUE] \in attendees'
             ELSE /\ a \in attendees'
                  /\ a.attendee_id \in Range(l)
                       => a.attendee_id \in Range(last'.missing)

C14_BulkCheckIn == [][C14_BulkCheckInCall]_vars

\* C14 witness: a bulk check-in checked an attendee in and reported as
\* missing the id of an attendee of another event, who is not checked in.
C14_Witness ==
  /\ last.op = "bulk_check_in"
  /\ last.outcome = "ok"
  /\ last.newly_checked_in # {}
  /\ \E a \in attendees : /\ a.attendee_id \in Range(last.missing)
                           /\ ~a.check_in_status

\* C15: one run of update_event_statuses at time now moves a Scheduled event
\* with start_time <= now < end_time to Ongoing and a Scheduled or Ongoing
\* event with end_time <= now to Completed, leaves every other status, and
\* returns the numbers of events moved to Ongoing and to Completed.
C15_SweepCall ==
  last'.op = "update_event_statuses" /\ update_event_statuses =>
    LET after(e) ==
          IF /\ events[e].status = "scheduled"
             /\ events[e].start_time <= now
             /\ now < events[e].end_time
          THEN "ongoing"
          ELSE IF /\ events[e].status \in {"scheduled", "ongoing"}
                  /\ events[e].end_time <= now
          THEN "completed"
          ELSE events[e].status
        moved(to) == {e \in DOMAIN events :
                        events[e].status # to /\ events'[e].status = to}
    IN /\ DOMAIN events' = DOMAIN events
       /\ \A e \in DOMAIN events : events'[e].status = after(e)
       /\ last'.ongoing = Cardinality(moved("ongoing"))
       /\ last'.completed = Cardinality(moved("completed"))

C15_Sweep == [][C15_SweepCall]_vars

\* C15 witness: a run moved an event to Ongoing inside its time window.
C15_Witness ==
  /\ last.op = "update_event_statuses"
  /\ last.ongoing >= 1
  /\ \E e \in DOMAIN events : /\ events[e].status = "ongoing"
                              /\ events[e].start_time <= last.now
                              /\ last.now < events[e].end_time

\* C16: the sweep (run alone or by a listing) changes no Canceled event,
\* whatever its times, and no field of any event other than status.
C16_SweepFrameStep ==
  last'.op \in {"update_event_statuses", "list_events"} /\ now' = now =>
    /\ DOMAIN events' = DOMAIN events
    /\ \A e \in DOMAIN events :
         /\ events[e].status = "canceled" => events'[e] = events[e]
         /\ [events'[e] EXCEPT !.status = events[e].status] = events[e]

C16_SweepFrame == [][C16_SweepFrameStep]_vars

\* C16 witness: a run at a time at or after the end of a Canceled event.
C16_Witness ==
  /\ last.op = "update_event_statuses"
  /\ \E e \in DOMAIN events : /\ events[e].status = "canceled"
                              /\ events[e].end_time <= last.now

\* C17: a run of update_event_statuses that follows a run at the same time
\* with no operation in between changes no event and reports 0 and 0.
C17_SweepAgainCall ==
  /\ last.op = "update_event_statuses"
  /\ last.now = now
  /\ update_event_statuses
  => /\ events' = events
     /\ last'.ongoing = 0
     /\ last'.completed = 0

C17_SweepIdempotent == [][C17_SweepAgainCall]_vars

\* C17 witness: a run reported no transition at a time at which a stored
\* event is past its end and Completed.
C17_Witness ==
  /\ last.op = "update_event_statuses"
  /\ last.now = now
  /\ last.ongoing = 0
  /\ last.completed = 0
  /\ \E e \in DOMAIN events : /\ events[e].status = "completed"
                              /\ events[e].start_time < events[e].end_time
                              /\ events[e].end_time <= now

\* C18: a listing at time now returns stored rows as they are after the
\* sweep: none is Scheduled with start_time <= now, none is Ongoing with
\* end_time <= now.
C18_ListingStep ==
  last'.op = "list_events" /\ now' = now =>
    \A e \in DOMAIN last'.events :
      LET row == last'.events[e]
      IN /\ e \in DOMAIN events'
         /\ row = events'[e]
         /\ ~(row.status = "scheduled" /\ row.start_time <= now)
         /\ ~(row.status = "ongoing" /\ row.end_time <= now)

C18_ListingAfterSweep == [][C18_ListingStep]_vars

\* C18 witness: a listing returned an Ongoing event that has started.
C18_Witness ==
  /\ last.op = "list_events"
  /\ \E e \in DOMAIN last.events : /\ last.events[e].status = "ongoing"
                                   /\ last.events[e].start_time <= now
                                   /\ now < last.events[e].end_time

\* C19: every stored event has end_time > start_time.
C19_EndAfterStart ==
  \A e \in DOMAIN events : events[e].end_time > events[e].start_time

\* C20: every stored attendee belongs to a stored event, and delete_event of
\* a stored event succeeds, removes the event and exactly its attendees, and
\* leaves the other events and their attendees as they were.
C20_EventOfAttendeeStored ==
  \A a \in attendees : a.event_id \in DOMAIN events

C20_DeleteEventCall ==
  last'.op = "delete_event" =>
    \A e \in DOMAIN events :
      delete_event(e) =>
        /\ last'.outcome = "ok"
        /\ attendees' = {a \in attendees : a.event_id # e}
        /\ DOMAIN events' = DOMAIN events \ {e}
        /\ \A x \in DOMAIN events' : events'[x] = events[x]

C20_DeleteCascades == []C20_EventOfAttendeeStored /\ [][C20_DeleteEventCall]_vars

\* C20 witness: an event was deleted, an attendee of the other event is
\* stored, and an id below that attendee's is in use no more.
C20_Witness ==
  /\ last.op = "delete_event"
  /\ last.outcome = "ok"
  /\ \E a \in attendees : a.attendee_id > Cardinality(attendees)

\* C21: process_csv_upload for a stored event with a file that read_csv
\* rejects, that lacks a required column or that has a row AttendeeCsv
\* rejects fails as malformed and creates no attendee, whatever the count of
\* the event and the emails of the rows are.
C21_MalformedCall ==
  last'.op = "process_csv_upload" =>
    \A e \in DOMAIN events, f \in CsvFiles :
      /\ \/ ~f.parses
         \/ ~({"first_name", "last_name", "email"} \subseteq f.columns)
         \/ \E i \in DOMAIN f.rows : ~f.rows[i].valid
      /\ process_csv_upload(e, f)
      => /\ last'.outcome = "malformed"
         /\ attendees' = attendees

C21_MalformedFirst == [][C21_MalformedCall]_vars

\* C21 witness: an upload was refused as malformed while an event is full.
C21_Witness ==
  /\ last.op = "process_csv_upload"
  /\ last.outcome = "malformed"
  /\ \E e \in DOMAIN events :
       AttendeeCount(attendees, e) = events[e].max_attendees

\* C22: from one stored state, with one event id and one list of candidates,
\* what bulk_create_attendees answers and stores is what process_csv_upload
\* of the parsed file can answer and store, and the other way round.
C22_SameCall ==
  /\ last'.op = "bulk_create_attendees" =>
       \A e \in CsvEventIds, b \in Batches :
         bulk_create_attendees(e, b) =>
           \E o \in {last'.outcome}, ids \in {last'.attendee_ids},
              stored \in {attendees'} :
             ENABLED (/\ process_csv_upload(e, WellFormed(b))
                      /\ last'.outcome = o
                      /\ last'.attendee_ids = ids
                      /\ attendees' = stored)
  /\ last'.op = "process_csv_upload" =>
       \A e \in CsvEventIds, b \in Batches :
         process_csv_upload(e, WellFormed(b)) =>
           \E o \in {last'.outcome}, ids \in {last'.attendee_ids},
              stored \in {attendees'} :
             ENABLED (/\ bulk_create_attendees(e, b)
                      /\ last'.outcome = o
                      /\ last'.attendee_ids = ids
                      /\ attendees' = stored)

C23_NotFoundCall ==
  LET refused == /\ last'.outcome = "not_found"
                 /\ events' = events
                 /\ attendees' = attendees
      stored == {a.attendee_id : a \in attendees}
  IN /\ \A e \in CsvEventIds \ DOMAIN events :
          \/ get_event(e)
          \/ update_event(e, [max_attendees |-> MaxCapacity])
          \/ delete_event(e)
          \/ \E email \in LookupEmails : create_attendee(e, email)
          \/ bulk_create_attendees(e, <<1>>)
          \/ process_csv_upload(e, WellFormed(<<1>>))
          \/ list_attendees(e, 1, MaxCapacity, <<>>)
          \/ \E id \in AttendeeIds : bulk_check_in(e, <<id>>)
          => refused
     /\ \A id \in AttendeeIds \ stored :
          \/ get_attendee(id)
          \/ update_attendee(id, [check_in_status |-> TRUE])
          \/ delete_attendee(id)
          \/ check_in_attendee(id)
          => refused
     /\ \A e \in DOMAIN events : delete_event(e) => e \notin DOMAIN events'
     /\ \A id \in stored :
          delete_attendee(id) => id \notin {a.attendee_id : a \in attendees'}

C23_NotFound == [][C23_NotFoundCall]_vars

\* C23 witness: a get of an event after both stored events were deleted.
C23_Witness ==
  /\ last.op = "get_event"
  /\ last.outcome = "not_found"
  /\ DOMAIN events = {}

\* C24: after update_event or update_attendee succeeds, each field the
\* request gives has the given value, each other field of the record its
\* previous value (the attendee's id and event_id among them), the record
\* is stored under its id, and no other record is modified.
C24_SparseUpdateCall ==
  /\ last'.op = "update_event" /\ last'.outcome = "ok" =>
       \A e \in DOMAIN events, u \in SparseEventUpdates :
         update_event(e, u) =>
           /\ DOMAIN events' = DOMAIN events
           /\ \A f \in DOMAIN u : events'[e][f] = u[f]
           /\ \A f \in DOMAIN events[e] \ DOMAIN u : events'[e][f] = events[e][f]
           /\ \A x \in DOMAIN events \ {e} : events'[x] = events[x]
           /\ attendees' = attendees
  /\ last'.op = "update_attendee" /\ last'.outcome = "ok" =>
       \A old \in attendees, u \in SparseAttendeeUpdates :
         update_attendee(old.attendee_id, u) =>
           /\ events' = events
           /\ attendees \ attendees' \subseteq {old}
           /\ \E new \in attendees' :
                /\ attendees' = (attendees \ {old}) \cup {new}
                /\ new.attendee_id = old.attendee_id
                /\ new.event_id = old.event_id
                /\ \A f \in DOMAIN u : new[f] = u[f]
                /\ \A f \in DOMAIN old \ DOMAIN u : new[f] = old[f]

C24_SparseUpdate == [][C24_SparseUpdateCall]_vars

\* C24 witness: an update succeeded on an attendee that is renamed and
\* checked in, next to another attendee, with a canceled event stored.
C24_Witness ==
  /\ last.op = "update_attendee"
  /\ last.outcome = "ok"
  /\ Cardinality(attendees) = 2
  /\ \E a \in attendees : a.first_name = 1 /\ a.check_in_status
  /\ \E e \in DOMAIN events : events[e].status = "canceled"

\* C25: with the default exclude_paths and public_paths, an http request
\* to a path that is none of /, /docs, /redoc, /openapi.json, /users/login,
\* /users and not under /events, without an Authorization header that
\* starts with "Bearer ", is answered 401 and not passed on.
C25_ProtectedNeedsBearer ==
  /\ last.op = "request"
  /\ middleware = AuthMiddleware(<<>>, <<>>)
  /\ last.scope.type = "http"
  /\ \A i \in DOMAIN DefaultExcludePaths : last.scope.path # DefaultExcludePaths[i]
  /\ ~startswith(last.scope.path, <<"/", "events">>)
  /\ last.scope.authorization \in {"none", "basic"}
  => last.outcome = "unauthorized"

\* C26: no two stored users share a username and no two share an email;
\* a create_user or update_user that gives a user a username or an email
\* another user holds fails as a conflict and changes no user.
C26_UsersUnique ==
  \A u, v \in users :
    u # v => /\ u.user_id # v.user_id
             /\ u.username # v.username
             /\ u.email # v.email

C26_ConflictCall ==
  last'.op \in {"create_user", "update_user"} =>
    LET conflict == /\ last'.outcome \in {"username_exists", "email_exists"}
                    /\ users' = users
        held(others, d) ==
          \E v \in others :
            \/ "username" \in DOMAIN d /\ d.username = v.username
            \/ "email" \in DOMAIN d /\ d.email = v.email
    IN /\ \A d \in UserCreates :
            held(users, d) /\ create_user(d) => conflict
       /\ \A u \in users, d \in UserUpdates :
            held(users \ {u}, d) /\ update_user(u.user_id, d) => conflict

C26_UserUniqueness == []C26_UsersUnique /\ [][C26_ConflictCall]_vars

\* C26 witness: an update was refused for the email another user holds.
C26_Witness ==
  /\ last.op = "update_user"
  /\ last.outcome = "email_exists"
  /\ Cardinality(users) >= 2

\* C27: of the check_in_attendee requests in flight for one attendee only
\* the first reports success: a request reports success only while the
\* stored attendee is not checked in.
C27_OneSuccessStep ==
  \A q \in InFlight :
    CommitCheckIn(q) =>
      \A a \in attendees : a.attendee_id = q.attendee_id => ~a.check_in_status

C27_OneSuccess == [][C27_OneSuccessStep]_vars

\* C28: update_attendee with an email another attendee of the same event
\* holds fails with the duplicate-email error and changes no attendee;
\* with an email no other attendee of that event holds (the attendee's own
\* among them) it succeeds.
C28_UpdateEmailCall ==
  last'.op = "update_attendee" =>
    \A old \in attendees, u \in AttendeeUpdates :
      "email" \in DOMAIN u /\ update_attendee(old.attendee_id, u) =>
        IF \E b \in attendees : /\ b # old
                                 /\ b.event_id = old.event_id
                                 /\ b.email = u.email
        THEN /\ last'.outcome = "duplicate_registered"
             /\ attendees' = attendees
        ELSE last'.outcome = "ok"

C28_UpdateEmail == [][C28_UpdateEmailCall]_vars

\* C29: an http request with a Bearer token that fails verification is
\* passed to the wrapped application without user info when its path is
\* public, and answered 401 by unauthorized_response when its path is
\* neither public nor excluded.
C29_FailedTokenByPath ==
  /\ last.op = "request"
  /\ last.scope.type = "http"
  /\ last.scope.authorization = "bearer_invalid"
  => LET path == last.scope.path
         public == \E i \in DOMAIN middleware.public_paths :
                     startswith(path, middleware.public_paths[i])
         excluded == \E i \in DOMAIN middleware.exclude_paths :
                       startswith(path, middleware.exclude_paths[i])
     IN /\ public => last.outcome = "passed" /\ last.user = "none"
        /\ ~public /\ ~excluded => last.outcome = "unauthorized"

\* C30: list_attendees of a stored event with page >= 1 and a page size
\* returns attendees of that event that pass the checked_in filter, at most
\* page_size of them, in the order of (first_name, last_name), after the
\* (page - 1) * page_size matching attendees that come first in that order;
\* total is the number of all matching attendees; nothing is modified.
C30_ListCall ==
  last'.op = "list_attendees" /\ last'.outcome = "ok" =>
    \A e \in DOMAIN events, checked_in \in CheckedInFilters :
      list_attendees(e, last'.page, last'.page_size, checked_in) =>
        LET rows == last'.attendees
            returned == {rows[i] : i \in DOMAIN rows}
            matching == {a \in attendees :
                           /\ a.event_id = e
                           /\ \/ checked_in = <<>>
                              \/ a.check_in_status = checked_in[1]}
            skip == (last'.page - 1) * last'.page_size
            NotAfter(a, b) ==
              \/ a.first_name < b.first_name
              \/ a.first_name = b.first_name /\ a.last_name <= b.last_name
        IN /\ returned \subseteq matching
           /\ Cardinality(returned) = Len(rows)
           /\ Len(rows) <= last'.page_size
           /\ \A i, j \in DOMAIN rows : i < j => NotAfter(rows[i], rows[j])
           /\ \E first \in SUBSET (matching \ returned) :
                /\ Cardinality(first) = Min2(skip, Cardinality(matching))
                /\ \A a \in first, b \in matching \ first : NotAfter(a, b)
                /\ \A a \in returned, b \in matching \ (first \cup returned) :
                     NotAfter(a, b)
                /\ Len(rows) = Min2(last'.page_size,
                                    Cardinality(matching) - Cardinality(first))
           /\ last'.total = Cardinality(matching)
           /\ attendees' = attendees
           /\ events' = events

C30_ListAttendees == [][C30_ListCall]_vars

\* C30 witness: the second page of size one holds the attendee whose names
\* come last, while the event has a checked-in attendee too.
C30_Witness ==
  /\ last.op = "list_attendees"
  /\ last.outcome = "ok"
  /\ last.page = 2
  /\ last.page_size = 1
  /\ last.total = 2
  /\ Len(last.attendees) = 1
  /\ \E a \in attendees :
       /\ a # last.attendees[1]
       /\ a.event_id = last.attendees[1].event_id
       /\ a.first_name = last.attendees[1].first_name
       /\ a.last_name < last.attendees[1].last_name
       /\ a.check_in_status

====
